---- MODULE Spec2Model ----
(***************************************************************************)
(* Model of the timed workflow runner (src/main.py): validate_spec,        *)
(* parse_spec / build_dag and the asyncio traversal run_workflow.          *)
(*                                                                         *)
(* A workflow file is either text that json.loads rejects or a JSON object *)
(* mapping a node name to {"start": bool, "edges": {target: delay}}.       *)
(* Delays are integers (tenths of a second).                               *)
(***************************************************************************)
EXTENDS Integers, Sequences, FiniteSets, TLC

VARIABLES
  entry,     \* the entry point that was called: "main" or one function
  pc,        \* where the call stands
  file,      \* the content of the workflow file
  result,    \* what validate_spec / parse_spec / asyncio.run returned or raised
  validated, \* the content validate_spec read
  tree,      \* <<>>, or <<root>>: the Node tree given to run_workflow
  late,      \* ticks of the clock that passed while the loop had callbacks
             \* to run (0: so far the clock was ideal, running took no time)
  now,       \* loop.time()
  task,      \* per node of the tree: the state of the task visiting it
  ready,     \* the event loop's FIFO of callbacks to run
  todo,      \* callbacks the current iteration of the loop still runs
  timers,    \* the event loop's scheduled timer handles
  left,      \* per node: children its gather() still waits for
  out,       \* the sink: the nodes printed, in order
  stamps,    \* loop time at which each line of out was printed
  fail,      \* the nodes whose print the sink refuses (print raises)
  exc,       \* per node: <<>>, or <<n>>: the exception raised by the print of
             \* node n, held by the node's gather or ended with by its task
  log        \* the effects of the run_workflow coroutines, in order

prog == <<entry, pc, file, result, validated, tree>>
loop == <<late, now, task, ready, todo, timers, left, out, stamps, fail, exc, log>>
vars == <<prog, loop>>

\* ------------------------------------------------------------------ bounds
MaxEdges == 2          \* edges declared by one node
MaxTotalEdges == 4     \* edges declared by one file given to the validator
MaxRunEdges == 3       \* edges declared by one file given to the parser
MaxDelay == 3          \* largest edge delay
RecursionLimit == 6    \* frames the interpreter gives build_dag
MaxLate == 1           \* ticks the clock may advance while callbacks are ready

\* ------------------------------------------------------- workflow files
KeyOrder == <<"A", "B", "C", "D">>     \* keys of the JSON object, in file order
Names == {KeyOrder[i] : i \in 1..Len(KeyOrder)}
Malformed == <<"malformed">>           \* text json.loads rejects
Delays == {0, 1, MaxDelay}

Range(s) == {s[i] : i \in 1..Len(s)}

\* the edge mappings one node can declare: insertion-ordered, keys distinct
EdgeMaps(targets, delays) ==
  UNION { { s \in [1..n -> [to : targets, time : delays]] :
              \A i, j \in 1..n : i # j => s[i].to # s[j].to } : n \in 0..MaxEdges }

\* the descriptors of one node.  edges is the value of val.get("edges", {}):
\* a descriptor without the key reads as one with the empty mapping; start is
\* the value of val.get("start", False) is True
Descriptors(targets, delays) ==
  [start : BOOLEAN, edges : EdgeMaps(targets, delays)]

\* the descriptors given to the validator (it never reads a delay) and to the
\* parser
ValidatorDescriptors == Descriptors(Names, {1})
ParserDescriptors == Descriptors(Names, {1, MaxDelay})

\* the start marks of the descriptor d
Marks(d) == IF d.start THEN 1 ELSE 0

\* the descriptors of descs with at most budget edges and at most starts marks
Within(descs, budget, starts) ==
  { d \in descs : Len(d.edges) <= budget /\ Marks(d) <= starts }

\* a file with the keys A, B, C, D
File4(dA, dB, dC, dD) == ("A" :> dA) @@ ("B" :> dB) @@ ("C" :> dC) @@ ("D" :> dD)

\* a file with the keys A, B, C only: an edge to D dangles there
File3(dA, dB, dC) == ("A" :> dA) @@ ("B" :> dB) @@ ("C" :> dC)

\* the JSON files whose nodes are described by descs and that declare at most
\* budget edges and at most starts start marks in all
IsWorkflowFile(f, descs, budget, starts) ==
  \E dA \in Within(descs, budget, starts) :
  \E dB \in Within(descs, budget - Len(dA.edges), starts - Marks(dA)) :
  \E dC \in Within(descs, budget - Len(dA.edges) - Len(dB.edges),
                    starts - Marks(dA) - Marks(dB)) :
    \/ f = File3(dA, dB, dC)
    \/ \E dD \in Within(descs, budget - Len(dA.edges) - Len(dB.edges) - Len(dC.edges),
                          starts - Marks(dA) - Marks(dB) - Marks(dC)) :
          f = File4(dA, dB, dC, dD)

\* ------------------------------------------------------------ main.py
\* the loop returning at the first start node it meets
get_start_nodes_first(workflow) ==
  LET all == SelectSeq(KeyOrder, LAMBDA k : k \in DOMAIN workflow /\ workflow[k].start)
  IN  SubSeq(all, 1, IF Len(all) > 0 THEN 1 ELSE 0)

\* get_start_nodes: the keys whose "start" is True, in file order
get_start_nodes(workflow) ==
  SelectSeq(KeyOrder, LAMBDA k : k \in DOMAIN workflow /\ workflow[k].start)

\* is_cyclical: one visited_nodes list is shared by the whole walk (it is
\* appended to and never popped); the result carries the list back to the
\* caller.  ret is "True", "False" or "KeyError" (workflow[node] on a name
\* that is not a key).
RECURSIVE is_cyclical(_, _, _)
RECURSIVE any_is_cyclical(_, _, _, _)

\* any(...) that looks at the first edge only
any_first_edge_only(workflow, edges, i, visited_nodes) ==
  IF i > Len(edges) \/ i > 1 THEN [ret |-> "False", visited_nodes |-> visited_nodes]
  ELSE is_cyclical(workflow, edges[i].to, visited_nodes)

\* any(is_cyclical(workflow, n, visited_nodes) for n in edges), from edge i on
any_is_cyclical(workflow, edges, i, visited_nodes) ==
  IF i > Len(edges) THEN [ret |-> "False", visited_nodes |-> visited_nodes]
  ELSE LET r == is_cyclical(workflow, edges[i].to, visited_nodes)
       IN  IF r.ret # "False" THEN r
           ELSE any_is_cyclical(workflow, edges, i + 1, r.visited_nodes)

\* is_cyclical handing a copy of the list to the walk below the node
is_cyclical_per_path(workflow, node, visited_nodes) ==
  IF node \in Range(visited_nodes)
  THEN [ret |-> "True", visited_nodes |-> visited_nodes]
  ELSE LET visited == Append(visited_nodes, node)
       IN  IF node \notin DOMAIN workflow
           THEN [ret |-> "KeyError", visited_nodes |-> visited_nodes]
           ELSE [ret |-> any_is_cyclical(workflow, workflow[node].edges, 1, visited).ret,
                 visited_nodes |-> visited_nodes]

is_cyclical(workflow, node, visited_nodes) ==
  IF node \in Range(visited_nodes)
  THEN [ret |-> "True", visited_nodes |-> visited_nodes]
  ELSE LET visited == Append(visited_nodes, node)
       IN  IF node \notin DOMAIN workflow
           THEN [ret |-> "KeyError", visited_nodes |-> visited]
           ELSE any_is_cyclical(workflow, workflow[node].edges, 1, visited)

None == [type |-> "None", msg |-> "", names |-> <<>>]
Raise(type, msg, names) == [type |-> type, msg |-> msg, names |-> names]

\* a validate_spec that looks for a cycle from every key of the file
validate_spec_every_node(f) ==
  IF f = Malformed THEN Raise("TypeError", "Invalid workflow spec: json", <<>>)
  ELSE LET start_nodes == get_start_nodes(f)
       IN  IF Len(start_nodes) = 0
           THEN Raise("TypeError", "Invalid workflow spec: no start nodes found", <<>>)
           ELSE IF Len(start_nodes) > 1
           THEN Raise("TypeError",
                      "Invalid workflow spec: more than one start node found", start_nodes)
           ELSE LET c == is_cyclical(f, start_nodes[1], <<>>)
                IN  IF c.ret = "KeyError" THEN Raise("KeyError", "", <<>>)
                    ELSE IF \E k \in DOMAIN f : is_cyclical(f, k, <<>>).ret = "True"
                    THEN Raise("TypeError", "Invalid workflow spec: cycle found", <<>>)
                    ELSE None

\* validate_spec: what the call on a file returns (None) or raises
validate_spec(f) ==
  IF f = Malformed THEN Raise("TypeError", "Invalid workflow spec: json", <<>>)
  ELSE LET start_nodes == get_start_nodes(f)
       IN  IF Len(start_nodes) = 0
           THEN Raise("TypeError", "Invalid workflow spec: no start nodes found", <<>>)
           ELSE IF Len(start_nodes) > 1
           THEN Raise("TypeError",
                      "Invalid workflow spec: more than one start node found", start_nodes)
           ELSE LET c == is_cyclical(f, start_nodes[1], <<>>)
                IN  IF c.ret = "KeyError" THEN Raise("KeyError", "", <<>>)
                    ELSE IF c.ret = "True"
                    THEN Raise("TypeError", "Invalid workflow spec: cycle found", <<>>)
                    ELSE None

\* build_dag: a Node is [name, edges], an Edge is [node, time].  The call
\* returns [ok |-> TRUE, node |-> the Node] or raises: KeyError for
\* workflow[node_name] on a name that is not a key, RecursionError when the
\* recursion is depth frames deep and the interpreter has no frame left (an
\* acyclic file never nests deeper than it has keys).
Built(node) == [ok |-> TRUE, node |-> <<node>>, err |-> ""]
Failed(err) == [ok |-> FALSE, node |-> <<>>, err |-> err]

RECURSIVE build_dag(_, _, _)
RECURSIVE build_edges(_, _, _, _, _, _)

\* the comprehension building the edges last-declared first
build_edges_reversed(workflow, node_name, edges, i, acc, depth) ==
  IF i > Len(edges) THEN Built([name |-> node_name, edges |-> acc])
  ELSE LET r == build_dag(workflow, edges[i].to, depth + 1)
       IN  IF ~r.ok THEN r
           ELSE build_edges(workflow, node_name, edges, i + 1,
                            <<[node |-> r.node[1], time |-> edges[i].time]>> \o acc, depth)

\* [Edge(node=build_dag(workflow, n), time=edges[n]) for n in edges], from
\* edge i on, acc holding the edges built so far
build_edges(workflow, node_name, edges, i, acc, depth) ==
  IF i > Len(edges) THEN Built([name |-> node_name, edges |-> acc])
  ELSE LET r == build_dag(workflow, edges[i].to, depth + 1)
       IN  IF ~r.ok THEN r
           ELSE build_edges(workflow, node_name, edges, i + 1,
                            Append(acc, [node |-> r.node[1], time |-> edges[i].time]), depth)

build_dag(workflow, node_name, depth) ==
  IF depth > RecursionLimit THEN Failed("RecursionError")
  ELSE IF node_name \notin DOMAIN workflow THEN Failed("KeyError")
  ELSE build_edges(workflow, node_name, workflow[node_name].edges, 1, <<>>, depth)

\* parse_spec: json.loads, then build_dag from get_start_nodes(workflow)[0]
parse_spec(f) ==
  IF f = Malformed THEN Failed("JSONDecodeError")
  ELSE LET start_nodes == get_start_nodes(f)
       IN  IF Len(start_nodes) = 0 THEN Failed("IndexError")
           ELSE build_dag(f, start_nodes[1], 1)

\* ------------------------------------------------------------ Node trees
\* a node of a tree is addressed by the edge indexes leading to it from the
\* root; <<>> is the root
RECURSIVE Sub(_, _)
Sub(t, p) == IF p = <<>> THEN t ELSE Sub(t.edges[Head(p)].node, Tail(p))

RECURSIVE PathsOf(_)
PathsOf(t) ==
  {<<>>} \cup UNION { { <<i>> \o q : q \in PathsOf(t.edges[i].node) } :
                       i \in 1..Len(t.edges) }

Parent(p) == SubSeq(p, 1, Len(p) - 1)
Children(t, p) == { Append(p, i) : i \in 1..Len(Sub(t, p).edges) }
IsPrefix(p, q) == Len(p) <= Len(q) /\ SubSeq(q, 1, Len(p)) = p
IsAncestor(p, q) == Len(p) < Len(q) /\ IsPrefix(p, q)

\* edge.time of the edge leading to node p
DelayTo(t, p) == Sub(t, Parent(p)).edges[p[Len(p)]].time

\* ------------------------------------------------------------ event loop
\* callbacks of the event loop
StepOf(p) == [kind |-> "step", node |-> p]            \* Task.__step / __wakeup
TimerOf(p) == [kind |-> "timer", node |-> p]          \* sleep's call_later handle
ChildDoneOf(p) == [kind |-> "child_done", node |-> p] \* gather's _done_callback
StopLoop == [kind |-> "stop", node |-> <<>>]          \* run_until_complete's callback

\* effects of run_workflow(node), as the log keeps them
PrintOf(p) == [effect |-> "print", node |-> p]             \* print returned
RefusedOf(p) == [effect |-> "refused", node |-> p]         \* print raised
CreateTaskOf(p) == [effect |-> "create_task", node |-> p]  \* create_task for an edge

\* the create_task effects for the edges of p, in order
CreateTasks(t, p) == [i \in 1..Len(Sub(t, p).edges) |-> CreateTaskOf(Append(p, i))]

\* create_task for the edges of p, in order: each new task's first step is
\* put on the ready queue
RECURSIVE ChildSteps(_, _, _)
ChildSteps(t, p, i) ==
  IF i > Len(Sub(t, p).edges) THEN <<>>
  ELSE <<StepOf(Append(p, i))>> \o ChildSteps(t, p, i + 1)

\* the coroutine of node p returned: its task is done and the callback
\* waiting on the task is scheduled
Finish(p, queue) ==
  /\ task' = [task EXCEPT ![p] = "done"]
  /\ ready' = Append(queue, IF p = <<>> THEN StopLoop ELSE ChildDoneOf(p))
  /\ UNCHANGED <<left, out, stamps, timers, exc, log>>

\* the coroutine of node p raised the exception of the print of node origin:
\* its task is done with that exception and the callback waiting on the task
\* is scheduled
Fail(p, queue, origin) ==
  /\ task' = [task EXCEPT ![p] = "failed"]
  /\ exc' = [exc EXCEPT ![p] = <<origin>>]
  /\ ready' = Append(queue, IF p = <<>> THEN StopLoop ELSE ChildDoneOf(p))
  /\ UNCHANGED <<left, out, stamps, timers>>

\* the deadline of the timer asyncio.sleep(delay) arms: delay from the start
\* of the run instead of from now
SleepUntilFromStart(delay) == delay

\* the deadline of the timer asyncio.sleep(delay) arms
SleepUntil(delay) == now + delay

\* a sleep(0) that suspends the task without rescheduling it
StartSleep_zero_lost(p, queue) ==
  LET delay == DelayTo(tree[1], p)
  IN  /\ task' = [task EXCEPT ![p] = "sleeping"]
      /\ ready' = queue
      /\ timers' = IF delay <= 0 THEN timers
                   ELSE timers \cup {[when |-> SleepUntil(delay), node |-> p]}
      /\ UNCHANGED <<left, out, stamps, exc, log>>

\* run_workflow_after up to its first suspension: await asyncio.sleep(delay).
\* A delay of 0 yields once to the loop, a positive delay arms a timer.
StartSleep(p, queue) ==
  LET delay == DelayTo(tree[1], p)
  IN  /\ task' = [task EXCEPT ![p] = "sleeping"]
      /\ IF delay <= 0
         THEN ready' = Append(queue, StepOf(p)) /\ timers' = timers
         ELSE ready' = queue
              /\ timers' = timers \cup {[when |-> SleepUntil(delay), node |-> p]}
      /\ UNCHANGED <<left, out, stamps, exc, log>>

\* run_workflow without the await of gather: the tasks are created and the
\* coroutine returns at once
Visit_fire_and_forget(p, queue) ==
  LET n == Len(Sub(tree[1], p).edges)
      kids == {Append(p, i) : i \in 1..n}
  IN  /\ out' = Append(out, p)
      /\ stamps' = Append(stamps, now)
      /\ task' = [q \in DOMAIN task |->
                    IF q \in kids THEN "pending" ELSE IF q = p THEN "done" ELSE task[q]]
      /\ left' = [left EXCEPT ![p] = n]
      /\ ready' = Append(queue \o ChildSteps(tree[1], p, 1),
                         IF p = <<>> THEN StopLoop ELSE ChildDoneOf(p))
      /\ timers' = timers
      /\ log' = log \o <<PrintOf(p)>> \o CreateTasks(tree[1], p)
      /\ exc' = exc

\* run_workflow creating the tasks before it prints the node
Visit_launch_first(p, queue) ==
  LET n == Len(Sub(tree[1], p).edges)
      kids == {Append(p, i) : i \in 1..n}
  IN  /\ out' = Append(out, p)
      /\ stamps' = Append(stamps, now)
      /\ log' = log \o CreateTasks(tree[1], p) \o <<PrintOf(p)>>
      /\ task' = [q \in DOMAIN task |->
                    IF q \in kids THEN "pending"
                    ELSE IF q = p THEN (IF n = 0 THEN "done" ELSE "visited")
                    ELSE task[q]]
      /\ left' = [left EXCEPT ![p] = n]
      /\ ready' = IF n = 0
                  THEN Append(queue, IF p = <<>> THEN StopLoop ELSE ChildDoneOf(p))
                  ELSE queue \o ChildSteps(tree[1], p, 1)
      /\ timers' = timers
      /\ exc' = exc

\* run_workflow(node): print the node, create one task per edge, await
\* gather(*tasks); gather of no task is done at once and the coroutine returns.
\* A print that raises ends the coroutine there, before any task is created.
Visit(p, queue) ==
  LET n == Len(Sub(tree[1], p).edges)
      kids == {Append(p, i) : i \in 1..n}
  IN  IF p \in fail
      THEN /\ log' = Append(log, RefusedOf(p))
           /\ Fail(p, queue, p)
      ELSE /\ out' = Append(out, p)
           /\ stamps' = Append(stamps, now)
           /\ log' = log \o <<PrintOf(p)>> \o CreateTasks(tree[1], p)
           /\ task' = [q \in DOMAIN task |->
                         IF q \in kids THEN "pending"
                         ELSE IF q = p THEN (IF n = 0 THEN "done" ELSE "visited")
                         ELSE task[q]]
           /\ left' = [left EXCEPT ![p] = n]
           /\ ready' = IF n = 0
                       THEN Append(queue, IF p = <<>> THEN StopLoop ELSE ChildDoneOf(p))
                       ELSE queue \o ChildSteps(tree[1], p, 1)
           /\ timers' = timers
           /\ exc' = exc

\* one step of the task of node p; woken from gather, the coroutine returns,
\* or raises the exception the gather holds
Step(p, queue) ==
  IF task[p] = "pending"
  THEN IF p = <<>> THEN Visit(p, queue) ELSE StartSleep(p, queue)
  ELSE IF task[p] = "sleeping" THEN Visit(p, queue)
  ELSE IF exc[p] # <<>> THEN Fail(p, queue, exc[p][1]) /\ log' = log
  ELSE Finish(p, queue)

\* a gather that wakes the parent when the first child is done
ChildDone_first_completed(p, queue) ==
  LET q == Parent(p)
  IN  /\ left' = [left EXCEPT ![q] = left[q] - 1]
      /\ ready' = IF left[q] = Len(Sub(tree[1], q).edges)
                  THEN Append(queue, StepOf(q)) ELSE queue
      /\ UNCHANGED <<task, timers, out, stamps, exc, log>>

\* a gather with return_exceptions=True: a failed task counts as a finished one
ChildDone_return_exceptions(p, queue) ==
  LET q == Parent(p)
  IN  /\ left' = [left EXCEPT ![q] = left[q] - 1]
      /\ ready' = IF left[q] = 1 THEN Append(queue, StepOf(q)) ELSE queue
      /\ UNCHANGED <<task, timers, out, stamps, exc, log>>

\* gather's callback for the finished task of p (return_exceptions is False):
\* nothing when the gather is done already; the exception of a failed task is
\* set on the gather and wakes the parent; else the last task wakes the parent
ChildDone(p, queue) ==
  LET q == Parent(p)
  IN  /\ left' = [left EXCEPT ![q] = left[q] - 1]
      /\ IF exc[q] # <<>>
         THEN ready' = queue /\ exc' = exc
         ELSE IF task[p] = "failed"
         THEN ready' = Append(queue, StepOf(q)) /\ exc' = [exc EXCEPT ![q] = exc[p]]
         ELSE /\ ready' = IF left[q] = 1 THEN Append(queue, StepOf(q)) ELSE queue
              /\ exc' = exc
      /\ UNCHANGED <<task, timers, out, stamps, log>>

\* ------------------------------------------------------------ actions
\* a main that goes on to parse_spec whatever validate_spec raised
ValidateSpec_ignored ==
  /\ pc = "validate_spec"
  /\ validated' = file
  /\ result' = validate_spec(file)
  /\ pc' = IF entry = "main" THEN "parse_spec"
           ELSE IF result'.type # "None" THEN "raised" ELSE "returned"
  /\ UNCHANGED <<entry, file, tree, loop>>

\* validate_spec(args.workflow_spec), called by main or on its own
ValidateSpec ==
  /\ pc = "validate_spec"
  /\ validated' = file
  /\ result' = validate_spec(file)
  /\ pc' = IF result'.type # "None" THEN "raised"
           ELSE IF entry = "main" THEN "parse_spec" ELSE "returned"
  /\ UNCHANGED <<entry, file, tree, loop>>

\* parse_spec(args.workflow_spec), called by main or on its own
ParseSpec ==
  /\ pc = "parse_spec"
  /\ LET r == parse_spec(file)
     IN  /\ result' = IF r.ok THEN None ELSE Raise(r.err, "", <<>>)
         /\ tree' = r.node
         /\ pc' = IF ~r.ok THEN "raised"
                  ELSE IF entry = "main" THEN "run_workflow" ELSE "returned"
  /\ UNCHANGED <<entry, file, validated, loop>>

\* the number of edges the file f declares in its first n keys
RECURSIVE EdgesDeclared(_, _)
EdgesDeclared(f, n) ==
  IF n = 0 THEN 0
  ELSE EdgesDeclared(f, n - 1)
         + (IF KeyOrder[n] \in DOMAIN f THEN Len(f[KeyOrder[n]].edges) ELSE 0)

\* the description file is rewritten by another process after validate_spec
\* has closed it and before parse_spec opens it: the edges of one node change
FileChange ==
  /\ entry = "main"
  /\ pc = "parse_spec"
  /\ file = validated
  /\ \E k \in DOMAIN file : \E d \in ValidatorDescriptors :
       /\ d.start = file[k].start
       /\ d # file[k]
       /\ file' = [file EXCEPT ![k] = d]
       /\ EdgesDeclared(file', Len(KeyOrder)) <= MaxRunEdges
  /\ UNCHANGED <<entry, pc, result, validated, tree, loop>>

\* every node of the tree given a task up front
AsyncioRun_all_tasks ==
  /\ pc = "run_workflow"
  /\ pc' = "running"
  /\ task' = [p \in PathsOf(tree[1]) |-> "pending"]
  /\ left' = [p \in PathsOf(tree[1]) |-> 0]
  /\ exc' = [p \in PathsOf(tree[1]) |-> <<>>]
  /\ ready' = <<StepOf(<<>>)>> \o ChildSteps(tree[1], <<>>, 1)
  /\ UNCHANGED <<entry, file, result, validated, tree, late, now, todo, timers, out,
                 stamps, fail, log>>

\* asyncio.run(run_workflow(head_node)): the main task is created
AsyncioRun ==
  /\ pc = "run_workflow"
  /\ pc' = "running"
  /\ task' = [p \in PathsOf(tree[1]) |-> IF p = <<>> THEN "pending" ELSE "none"]
  /\ left' = [p \in PathsOf(tree[1]) |-> 0]
  /\ exc' = [p \in PathsOf(tree[1]) |-> <<>>]
  /\ ready' = <<StepOf(<<>>)>>
  /\ UNCHANGED <<entry, file, result, validated, tree, late, now, todo, timers, out,
                 stamps, fail, log>>

\* the event loop runs the callback at the head of its ready queue, one of
\* those that were ready when this iteration began.  The stop callback makes
\* this iteration the last one; the callbacks left in it still run.
RunReady ==
  /\ pc \in {"running", "stopping"}
  /\ todo > 0
  /\ todo' = todo - 1
  /\ LET cb == Head(ready)
         queue == Tail(ready)
     IN  IF cb.kind = "stop"
         THEN /\ pc' = "stopping"
              /\ ready' = queue
              /\ UNCHANGED <<task, timers, left, out, stamps, exc, log>>
         ELSE /\ pc' = pc
              /\ IF cb.kind = "step" THEN Step(cb.node, queue)
                 ELSE IF cb.kind = "timer"
                 THEN /\ ready' = Append(queue, StepOf(cb.node))
                      /\ UNCHANGED <<task, timers, left, out, stamps, exc, log>>
                 ELSE ChildDone(cb.node, queue)
  /\ UNCHANGED <<entry, file, result, validated, tree, late, now, fail>>

\* the print of a node raised
SinkError(name) == Raise("OSError", "", <<name>>)

\* the last iteration is over: asyncio.run cancels the tasks that are not
\* done (each ends at its await, CancelledError thrown into it), closes the
\* loop and returns, or raises the exception of the main task
LoopStops ==
  /\ pc = "stopping"
  /\ todo = 0
  /\ IF task[<<>>] = "failed"
     THEN /\ pc' = "raised"
          /\ result' = SinkError(Sub(tree[1], exc[<<>>][1]).name)
     ELSE /\ pc' = "returned"
          /\ result' = result
  /\ task' = [p \in DOMAIN task |->
                IF task[p] \in {"pending", "sleeping", "visited"} THEN "cancelled"
                ELSE task[p]]
  /\ ready' = <<>>
  /\ timers' = {}
  /\ UNCHANGED <<entry, file, validated, tree, late, now, todo, left, out, stamps,
                 fail, exc, log>>

\* the timer handles that are due
Due == {h \in timers : h.when <= now}

\* the orders in which the loop's heap can hand out the due handles: earliest
\* deadline first, handles with equal deadlines in an order the heap does not
\* define
DueOrders ==
  { s \in [1..Cardinality(Due) -> Due] :
      /\ \A i, j \in 1..Cardinality(Due) : i < j => s[i] # s[j] /\ s[i].when <= s[j].when }

\* an iteration of the event loop begins: the due timer handles are moved to
\* the ready queue, and the callbacks ready now are those this iteration runs
BeginIteration ==
  /\ pc = "running"
  /\ todo = 0
  /\ ready # <<>> \/ Due # {}
  /\ \E s \in DueOrders :
       ready' = ready \o [i \in 1..Len(s) |-> TimerOf(s[i].node)]
  /\ timers' = timers \ Due
  /\ todo' = Len(ready')
  /\ UNCHANGED <<prog, late, now, task, left, out, stamps, fail, exc, log>>

\* time passes while a timer is armed (it shows in nothing else): while the
\* loop waits for its next timer, or, late, while it has callbacks to run
Tick ==
  /\ pc = "running"
  /\ \E h \in timers : h.when > now
  /\ now' = now + 1
  /\ IF todo = 0 /\ ready = <<>> /\ Due = {}
     THEN late' = late
     ELSE late < MaxLate /\ late' = late + 1
  /\ UNCHANGED <<prog, task, ready, todo, timers, left, out, stamps, fail, exc, log>>

LoopIdle ==
  /\ late = 0
  /\ now = 0
  /\ task = <<>>
  /\ ready = <<>>
  /\ todo = 0
  /\ timers = {}
  /\ left = <<>>
  /\ out = <<>>
  /\ stamps = <<>>
  /\ exc = <<>>
  /\ log = <<>>

\* a sink that takes every print
SinkSound == fail = {}

NoFile == <<>>      \* no file is read

InitValidate ==
  /\ entry = "validate_spec"
  /\ pc = "validate_spec"
  /\ (file = Malformed \/ IsWorkflowFile(file, ValidatorDescriptors, MaxTotalEdges, Len(KeyOrder)))
  /\ result = None
  /\ validated = NoFile
  /\ tree = <<>>
  /\ LoopIdle
  /\ SinkSound

SpecValidate == InitValidate /\ [][ValidateSpec]_vars

\* the files given to the parser on its own: at most one start mark
InitParse ==
  /\ entry = "parse_spec"
  /\ pc = "parse_spec"
  /\ \/ file = Malformed
     \/ IsWorkflowFile(file, ParserDescriptors, MaxRunEdges, 1)
  /\ result = None
  /\ validated = NoFile
  /\ tree = <<>>
  /\ LoopIdle
  /\ SinkSound

SpecParse == InitParse /\ [][ParseSpec]_vars

\* the trees given to run_workflow on its own: built from the files whose
\* edges lead from a key to a later key, at most MaxRunEdges edges in all
RunnerDescriptorsA == {d \in Descriptors({"B", "C", "D"}, Delays) : d.start}
RunnerDescriptorsB == {d \in Descriptors({"C", "D"}, Delays) : ~d.start}
RunnerDescriptorsC == {d \in Descriptors({"D"}, Delays) : ~d.start}
Leaf == [start |-> FALSE, edges |-> <<>>]

IsRunnerTree(t) ==
  \E dA \in Within(RunnerDescriptorsA, MaxRunEdges, 1) :
  \E dB \in Within(RunnerDescriptorsB, MaxRunEdges - Len(dA.edges), 0) :
  \E dC \in Within(RunnerDescriptorsC, MaxRunEdges - Len(dA.edges) - Len(dB.edges), 0) :
    t = build_dag(File4(dA, dB, dC, Leaf), "A", 1).node

InitRun ==
  /\ entry = "run_workflow"
  /\ pc = "run_workflow"
  /\ file = NoFile
  /\ result = None
  /\ validated = NoFile
  /\ IsRunnerTree(tree)
  /\ LoopIdle
  /\ SinkSound

NextRun == AsyncioRun \/ BeginIteration \/ RunReady \/ Tick \/ LoopStops

SpecRun == InitRun /\ [][NextRun]_vars

\* the event loop keeps running callbacks and timers, and time passes
FairRun == SpecRun /\ WF_vars(BeginIteration) /\ WF_vars(RunReady) /\ WF_vars(Tick)
           /\ WF_vars(AsyncioRun) /\ WF_vars(LoopStops)

\* run_workflow on its own, with a sink that refuses the print of some nodes
InitSink ==
  /\ entry = "run_workflow"
  /\ pc = "run_workflow"
  /\ file = NoFile
  /\ result = None
  /\ validated = NoFile
  /\ IsRunnerTree(tree)
  /\ LoopIdle
  /\ fail \in SUBSET PathsOf(tree[1])
  /\ fail # {}

SpecSink == InitSink /\ [][NextRun]_vars

FairSink == SpecSink /\ WF_vars(BeginIteration) /\ WF_vars(RunReady) /\ WF_vars(Tick)
            /\ WF_vars(AsyncioRun) /\ WF_vars(LoopStops)

\* the program: validate_spec, parse_spec, asyncio.run(run_workflow(...))
InitMain ==
  /\ entry = "main"
  /\ pc = "validate_spec"
  /\ (file = Malformed \/ IsWorkflowFile(file, ValidatorDescriptors, MaxRunEdges, Len(KeyOrder)))
  /\ result = None
  /\ validated = NoFile
  /\ tree = <<>>
  /\ LoopIdle
  /\ SinkSound

Next == ValidateSpec \/ ParseSpec \/ AsyncioRun \/ BeginIteration \/ RunReady \/ Tick
          \/ LoopStops

Spec == InitMain /\ [][Next]_vars

\* the program, run while another process may rewrite the description file
NextEdit == Next \/ FileChange

SpecEdit == InitMain /\ [][NextEdit]_vars

\* ------------------------------------------------- graphs, read directly
\* (the vocabulary of the properties; none of it is used by the actions)
TargetsOf(w, n) ==
  IF n \in DOMAIN w THEN {w[n].edges[i].to : i \in 1..Len(w[n].edges)} ELSE {}

AllTargetsDefined(w) == \A n \in DOMAIN w : TargetsOf(w, n) \subseteq DOMAIN w

StartMarked(w) == {k \in DOMAIN w : w[k].start}

RECURSIVE Closure(_, _)
Closure(w, S) ==
  LET S2 == S \cup UNION {TargetsOf(w, m) : m \in S}
  IN  IF S2 = S THEN S ELSE Closure(w, S2)

\* the names reached from n by one edge or more, and by none or more
ReachPlus(w, n) == Closure(w, TargetsOf(w, n))
ReachStar(w, n) == {n} \cup ReachPlus(w, n)

\* some path that starts at n comes back to a node already on it
CycleFrom(w, n) == \E m \in ReachStar(w, n) : m \in ReachPlus(w, m)
Acyclic(w) == \A n \in DOMAIN w : n \notin ReachPlus(w, n)

\* the paths of w that start at root, as sequences of names (w acyclic)
RECURSIVE Extend(_, _)
Extend(w, P) ==
  LET P2 == P \cup { Append(q, t) : q \in P, t \in Names }
      P3 == { q \in P2 : q \in P \/ q[Len(q)] \in TargetsOf(w, q[Len(q) - 1]) }
  IN  IF P3 = P THEN P ELSE Extend(w, P3)

GraphPaths(w, root) == Extend(w, {<<root>>})

\* the names on the way from the root of t to its node p
NamePath(t, p) == [i \in 1..(Len(p) + 1) |-> Sub(t, SubSeq(p, 1, i - 1)).name]

Finished == pc \in {"returned", "raised"}
OneStart(w) == Cardinality(StartMarked(w)) = 1
TheStart(w) == CHOOSE k \in StartMarked(w) : TRUE

CycleError == Raise("TypeError", "Invalid workflow spec: cycle found", <<>>)
NoStartError == Raise("TypeError", "Invalid workflow spec: no start nodes found", <<>>)
MultipleStartMsg == "Invalid workflow spec: more than one start node found"

\* ------------------------------------------------------------ claims
\* C1 (as claimed): validate_spec raises nothing on a file with all edge
\* targets defined, exactly one start node and no cycle reachable from it,
\* also when a node is reachable from the start by two distinct paths.
C1_AcyclicAccepted ==
  (Finished /\ file # Malformed /\ AllTargetsDefined(file) /\ OneStart(file)
     /\ ~CycleFrom(file, TheStart(file)))
  => result = None

\* C2: validate_spec raises the cycle error on every file with all edge
\* targets defined and exactly one start node from which some path revisits a
\* node already on it, whatever the order in which the edges are declared.
C2_CycleRejected ==
  (Finished /\ file # Malformed /\ AllTargetsDefined(file) /\ OneStart(file)
     /\ CycleFrom(file, TheStart(file)))
  => result = CycleError

\* a rejected cycle that is closed through the second edge of the start node
\* only, the first edge leading into a part without a cycle
C2_Witness ==
  /\ pc = "raised" /\ file # Malformed /\ AllTargetsDefined(file) /\ OneStart(file)
  /\ result = CycleError
  /\ LET es == file[TheStart(file)].edges
     IN  /\ Len(es) = 2
         /\ ~CycleFrom(file, es[1].to)
         /\ TheStart(file) \in ReachPlus(file, es[2].to)
         /\ es[2].to # TheStart(file)

\* C3: with no start-marked node validate_spec raises the no-start error, with
\* two or more it raises the multiple-start error carrying exactly the names
\* of the start-marked nodes, whatever the edges are (cycles, dangling targets).
C3_StartCountDecidesFirst ==
  (Finished /\ file # Malformed)
  => /\ StartMarked(file) = {} => result = NoStartError
     /\ Cardinality(StartMarked(file)) >= 2
          => /\ result.type = "TypeError"
             /\ result.msg = MultipleStartMsg
             /\ Range(result.names) = StartMarked(file)
             /\ Len(result.names) = Cardinality(StartMarked(file))

\* the multiple-start error raised on a file that also holds a cycle through a
\* start node and a dangling edge
C3_Witness ==
  /\ pc = "raised" /\ file # Malformed
  /\ Cardinality(StartMarked(file)) >= 2
  /\ result.msg = MultipleStartMsg
  /\ ~AllTargetsDefined(file)
  /\ \E k \in StartMarked(file) : CycleFrom(file, k)

\* the tree t has one node per path of w from root, each node's edges being
\* the declared edges of its name, in declaration order, with their delays
IsPathTree(w, root, t) ==
  LET graphPaths == GraphPaths(w, root)
      treePaths == PathsOf(t)
  IN  /\ {NamePath(t, p) : p \in treePaths} = graphPaths
      /\ Cardinality(treePaths) = Cardinality(graphPaths)
      /\ \A p \in treePaths :
           LET n == Sub(t, p).name
               es == Sub(t, p).edges
           IN  /\ n \in DOMAIN w
               /\ Len(es) = Len(w[n].edges)
               /\ \A i \in 1..Len(es) :
                    /\ es[i].node.name = w[n].edges[i].to
                    /\ es[i].time = w[n].edges[i].time
      /\ \A n \in DOMAIN w :
           Cardinality({p \in treePaths : Sub(t, p).name = n})
             = Cardinality({q \in graphPaths : q[Len(q)] = n})

\* C10: on an acyclic file with all edge targets defined build_dag returns, and
\* returns the tree with one node per path from the root: children in
\* declaration order with the declared delays, a name reached by k paths
\* built k times.
C10_BuildIsPathTree ==
  (Finished /\ entry = "parse_spec" /\ file # Malformed /\ AllTargetsDefined(file)
     /\ Acyclic(file) /\ OneStart(file))
  => /\ pc = "returned"
     /\ Len(tree) = 1
     /\ IsPathTree(file, TheStart(file), tree[1])

\* a built tree in which one name was reached by two paths and built twice,
\* and whose root has two edges with different delays
C10_Witness ==
  /\ pc = "returned" /\ entry = "parse_spec" /\ AllTargetsDefined(file) /\ Acyclic(file)
  /\ Len(tree) = 1
  /\ \E p, q \in PathsOf(tree[1]) : p # q /\ Sub(tree[1], p).name = Sub(tree[1], q).name
  /\ Len(tree[1].edges) = 2
  /\ tree[1].edges[1].time # tree[1].edges[2].time

\* ------------------------------------------------------ traversal claims
Running == pc \in {"running", "stopping", "returned"}
Nodes == PathsOf(tree[1])
Emitted == Range(out)

RECURSIVE PathSum(_, _)
PathSum(t, p) == IF p = <<>> THEN 0 ELSE PathSum(t, Parent(p)) + DelayTo(t, p)

\* C4: no node of the tree is emitted twice, and when run_workflow has
\* returned the sink holds as many observations as the tree has nodes.
C4_OncePerNode ==
  Running =>
    /\ \A i, j \in 1..Len(out) : i # j => out[i] # out[j]
    /\ Emitted \subseteq Nodes
    /\ pc = "returned" => Len(out) = Cardinality(Nodes)

\* a finished traversal of a tree of four nodes or more, two of them with the
\* same name
C4_Witness ==
  /\ pc = "returned" /\ entry = "run_workflow"
  /\ Len(out) >= 4
  /\ \E p, q \in Nodes : p # q /\ Sub(tree[1], p).name = Sub(tree[1], q).name

\* C5: a task exists for a node only once its parent's observation is in the
\* sink, so every observation stands after those of all its ancestors and the
\* root's comes first, for every delay (0 included) and every interleaving.
\* (the ancestors of a node are the proper prefixes of its path)
C5_ParentFirst ==
  Running =>
    /\ \A p \in Nodes : (p # <<>> /\ task[p] # "none") => Parent(p) \in Emitted
    /\ \A i \in 1..Len(out) :
         \A k \in 0..(Len(out[i]) - 1) :
           \E j \in 1..(i - 1) : out[j] = SubSeq(out[i], 1, k)
    /\ Len(out) > 0 => out[1] = <<>>

\* a finished traversal, with a late clock, of a chain of two zero-delay edges
C5_Witness ==
  /\ pc = "returned" /\ late > 0
  /\ \E p \in Nodes : Len(p) = 2 /\ DelayTo(tree[1], p) = 0
                      /\ DelayTo(tree[1], Parent(p)) = 0

\* C6: with an ideal clock every node is emitted at the sum of the delays on
\* its path from the root, so the observations stand in the order of these
\* sums.
C6_PathSumTiming ==
  (Running /\ late = 0) =>
    /\ \A i \in 1..Len(out) : stamps[i] = PathSum(tree[1], out[i])
    /\ \A i, j \in 1..Len(out) :
         i < j => PathSum(tree[1], out[i]) <= PathSum(tree[1], out[j])

\* a finished traversal (ideal clock) where a grandchild in the first branch
\* was emitted before the root's later child, whose own delay is larger than
\* the grandchild's path sum (A -> B -> D and A -> C emitting A, B, D, C)
C6_Witness ==
  /\ pc = "returned" /\ late = 0
  /\ Len(tree[1].edges) = 2
  /\ Len(tree[1].edges[1].node.edges) = 1
  /\ DelayTo(tree[1], <<1>>) > 0 /\ DelayTo(tree[1], <<1, 1>>) > 0
  /\ PathSum(tree[1], <<1, 1>>) < PathSum(tree[1], <<2>>)
  /\ out = << <<>>, <<1>>, <<1, 1>>, <<2>> >>

Stage(s) ==
  IF s = "none" THEN 0 ELSE IF s \in {"pending", "sleeping"} THEN 1
  ELSE IF s = "visited" THEN 2 ELSE 3

\* C7: a task moves from Scheduled to Visited to Done only (a node without
\* edges is emitted and done in one step), a task is done only when the tasks
\* of all its children are, and run_workflow returns only when every node was
\* emitted and every task is done.
C7_DoneAfterChildren ==
  [][ (pc' \in {"running", "stopping", "returned"} /\ task # <<>>) =>
        /\ \A p \in DOMAIN task :
             \/ Stage(task'[p]) = Stage(task[p])
             \/ Stage(task'[p]) = Stage(task[p]) + 1 /\ Stage(task[p]) < 3
             \/ Stage(task[p]) = 1 /\ Stage(task'[p]) = 3 /\ out' = Append(out, p)
        /\ \A p, q \in DOMAIN task :
             (task'[p] = "done" /\ IsAncestor(p, q)) => task'[q] = "done"
        /\ pc' = "returned" =>
             \A p \in DOMAIN task : task'[p] = "done" /\ p \in Range(out') ]_vars

\* a visited node waiting in gather, one of its children done, another not
C7_Witness ==
  /\ pc = "running"
  /\ \E p \in Nodes : \E c, d \in Children(tree[1], p) :
       task[p] = "visited" /\ task[c] = "done" /\ task[d] \in {"pending", "sleeping"}

\* C8: under a fair event loop every node of a finite tree is eventually
\* emitted and run_workflow eventually returns.
C8_EventuallyReturns == <>(pc = "returned" /\ Range(out) = PathsOf(tree[1]))

\* a returned traversal that had to wait for a timer and passed a sleep(0)
C8_Witness ==
  /\ pc = "returned" /\ entry = "run_workflow" /\ now > 0
  /\ \E p \in Nodes : p # <<>> /\ DelayTo(tree[1], p) = 0

\* C9: in the program's run validate_spec runs to completion before anything
\* is built or emitted, and when it raises the program ends there: no step
\* follows, so no tree is built and no observation is emitted.
C9_ValidationFirst ==
  [][ /\ pc # "raised"
      /\ pc = "validate_spec" =>
           /\ tree = <<>> /\ out = <<>> /\ task = <<>>
           /\ tree' = <<>> /\ out' = <<>> /\ task' = <<>>
           /\ result'.type # "None" => pc' = "raised" ]_vars

\* the program ended by the cycle error, nothing built, nothing emitted
C9_Witness ==
  /\ entry = "main" /\ pc = "raised" /\ result = CycleError
  /\ tree = <<>> /\ out = <<>> /\ task = <<>>

\* an edge that is met on a walk from the start node leads to a name that is
\* not a key of the file
DanglingReachable(w) ==
  \E n \in ReachStar(w, TheStart(w)) \cap DOMAIN w : ~(TargetsOf(w, n) \subseteq DOMAIN w)

\* the error kinds of the validator (all raised as TypeError: malformed input,
\* no start, multiple starts, cycle) and the lookup failure of workflow[node]
ValidatorKinds == {"TypeError"}
LookupFailure == "KeyError"

\* C11 (as claimed): on a file with exactly one start node and a dangling edge
\* reachable from it the call fails with an error of a kind of its own: not
\* one of the validator's kinds, and not the bare lookup failure.
C11_DanglingIsOwnKind ==
  (Finished /\ file # Malformed /\ OneStart(file) /\ DanglingReachable(file))
  => /\ pc = "raised"
     /\ result.type \notin ValidatorKinds
     /\ result.type # LookupFailure

\* the nodes reachable from the start node
Relevant(w) == ReachStar(w, TheStart(w))

\* C13: the outcome of validate_spec on a file with one start node is the
\* same on every file that differs from it in the edges of one node not
\* reachable from the start node (start marks and reachable part unchanged),
\* whatever the new edges are: cycles among unreachable nodes, dangling
\* targets, edges into the reachable part.  (With another number of start
\* marks there is no start node, and the start marks alone decide: C3.)
C13_UnreachableEdgesIgnored ==
  (Finished /\ file # Malformed /\ OneStart(file)) =>
    \A k \in DOMAIN file \ Relevant(file) :
      \A d \in ValidatorDescriptors :
        d.start = file[k].start => validate_spec([file EXCEPT ![k] = d]) = result

\* an accepted file with an edge in its reachable part and, outside of it, a
\* cycle and a dangling edge
C13_Witness ==
  /\ pc = "returned" /\ entry = "validate_spec" /\ result = None
  /\ file # Malformed /\ OneStart(file)
  /\ file[TheStart(file)].edges # <<>>
  /\ \E k \in DOMAIN file \ Relevant(file) : k \in ReachPlus(file, k)
  /\ \E k \in DOMAIN file \ Relevant(file) : ~(TargetsOf(file, k) \subseteq DOMAIN file)

\* -------------------------------------------------- a sink that refuses
\* the nodes whose print raised, and the log entries of the prints of node p
Refused == {log[i].node : i \in {j \in 1..Len(log) : log[j].effect = "refused"}}
PrintsOf(p) == {i \in 1..Len(log) : log[i].node = p /\ log[i].effect \in {"print", "refused"}}

\* asyncio.run raised the exception of the refused print of some node
RaisedFromSink ==
  /\ pc = "raised"
  /\ exc[<<>>] # <<>> /\ exc[<<>>][1] \in Refused
  /\ result = SinkError(Sub(tree[1], exc[<<>>][1]).name)

\* C12: once the print of a node (root or descendant) was refused, the run
\* never returns normally and, the loop being fair, ends raising the error of
\* a refused print (the one refused, when it is the only one); the print of a
\* node is attempted once at most, refused or not.
C12_SinkFailureIsFatal ==
  /\ [](task # <<>> => \A p \in DOMAIN task : Cardinality(PrintsOf(p)) <= 1)
  /\ [](pc = "returned" => Refused = {})
  /\ []((Refused # {}) => <>RaisedFromSink)

\* the run ended with the error of the only refused print, that of a
\* grandchild of the root, after a sibling branch went on emitting
C12_Witness ==
  /\ RaisedFromSink
  /\ Cardinality(Refused) = 1
  /\ \E p \in Refused : Len(p) = 2
  /\ \E i \in 1..Len(log) : \E j \in 1..Len(log) :
       i < j /\ log[i].effect = "refused" /\ log[j].effect = "print"

\* run_workflow(root) has finished: its coroutine returned or raised
RootFinished == task # <<>> /\ task[<<>>] \in {"done", "failed"}

\* C14 (as claimed): once run_workflow(root) has finished, returning or
\* raising, no task it launched is pending or sleeping, and no observation is
\* emitted any more.
C14_NoTaskOutlives ==
  [][ RootFinished =>
        /\ \A p \in DOMAIN task : task[p] \notin {"pending", "sleeping"}
        /\ out' = out ]_vars

\* ------------------------------------------------ print and create_task
\* C15 (as claimed): the observation of a node is emitted only after the
\* tasks of all its children have been created.
C15_EmittedAfterLaunch ==
  Running =>
    \A i \in 1..Len(log) :
      log[i].effect = "print" =>
        \A c \in Children(tree[1], log[i].node) :
          \E j \in 1..(i - 1) : log[j] = CreateTaskOf(c)

\* C15 (amended): the task of each child of a node is created only after the
\* observation of that node has been emitted, and the tasks of all its
\* children are created right after it, in declaration order, before any
\* other observation.
C15_LaunchedAfterEmitted ==
  Running =>
    /\ \A j \in 1..Len(log) :
         log[j].effect = "create_task" =>
           \E i \in 1..(j - 1) : log[i] = PrintOf(Parent(log[j].node))
    /\ \A i \in 1..Len(log) :
         log[i].effect = "print" =>
           LET n == Len(Sub(tree[1], log[i].node).edges)
           IN  /\ i + n <= Len(log)
               /\ \A k \in 1..n : log[i + k] = CreateTaskOf(Append(log[i].node, k))

\* a node below the root with two children was printed, and both tasks
\* created, while another task was still sleeping
C15_Witness ==
  /\ pc = "running"
  /\ \E i \in 1..Len(log) :
       /\ log[i].effect = "print" /\ log[i].node # <<>>
       /\ Len(Sub(tree[1], log[i].node).edges) = 2
       /\ log[i + 2] = CreateTaskOf(Append(log[i].node, 2))
  /\ \E p \in DOMAIN task : task[p] = "sleeping"

\* ------------------------------------------------------ equal delays
\* C17: of two children of a node whose edges carry the same delay, the one
\* declared first is emitted first, in every execution.
C17_TiesByDeclaration ==
  Running =>
    \A p \in Nodes :
      \A i, j \in 1..Len(Sub(tree[1], p).edges) :
        ( /\ i < j
          /\ DelayTo(tree[1], Append(p, i)) = DelayTo(tree[1], Append(p, j)) )
        => \A m \in 1..Len(out) :
             out[m] = Append(p, j) =>
               \E k \in 1..(m - 1) : out[k] = Append(p, i)

\* ------------------------------------------------ one node per name
NameOf(p) == Sub(tree[1], p).name

\* C18: in the program's run, the tree built from a file that validate_spec
\* accepted holds no name twice and has one node for each name that can be
\* reached from the start node, and the traversal emits no name twice and,
\* once it has returned, has emitted each of these names.
C18_OneNodePerName ==
  (entry = "main" /\ Len(tree) = 1 /\ validated = file) =>
    /\ result = None
    /\ \A p, q \in Nodes : p # q => NameOf(p) # NameOf(q)
    /\ {NameOf(p) : p \in Nodes} = ReachStar(file, TheStart(file))
    /\ Cardinality(Nodes) = Cardinality(ReachStar(file, TheStart(file)))
    /\ \A i, j \in 1..Len(out) : i # j => NameOf(out[i]) # NameOf(out[j])
    /\ pc = "returned" =>
         /\ Len(out) = Cardinality(ReachStar(file, TheStart(file)))
         /\ {NameOf(out[i]) : i \in 1..Len(out)} = ReachStar(file, TheStart(file))

\* the program has returned from the traversal of a tree of four nodes whose
\* root has two children, one of them with a child of its own
C18_Witness ==
  /\ entry = "main" /\ pc = "returned" /\ Len(tree) = 1 /\ validated = file
  /\ Len(out) = 4
  /\ Len(tree[1].edges) = 2
  /\ \E p \in Nodes : Len(p) = 2

\* ------------------------------------------------ one graph per run
\* C16: in every run of the program the tree that is built and traversed is
\* the tree of the graph that validate_spec checked, also when the description
\* file is rewritten between the steps of the run.
C16_TreeOfValidatedGraph ==
  (entry = "main" /\ Len(tree) = 1) =>
    /\ validated # NoFile /\ validated # Malformed
    /\ IsPathTree(validated, TheStart(validated), tree[1])

====
